---- MODULE Spec2Model ----
(***************************************************************************)
(* Model of RegexToDFA (src/Laboratorio#4.py): one instance of the class,  *)
(* its fields, and the operations parse_regex, construct_dfa,              *)
(* minimize_dfa, simulate_dfa and process called on it in any order.       *)
(*                                                                         *)
(* Characters are one-character strings.  The explicit concatenation       *)
(* operator of the source (the middle dot) is written "." here; the        *)
(* regular expressions of the model never contain it.                      *)
(***************************************************************************)
EXTENDS Integers, Sequences, FiniteSets, TLC

\* ------------------------------------------------------------------ bounds
\* longest regular expression enumerated exhaustively
MaxRegexLen == 2
\* longest input string handed to simulate_dfa
MaxStrLen == 1
\* how many times parse_regex may be called on the instance
MaxParses == 2

\* ------------------------------------------------------------------ inputs
Sigma == {"a", "b"}
Chars == Sigma \cup {"(", ")", "|", "*", "+", "?"}

RECURSIVE SeqsUpTo(_, _)
SeqsUpTo(S, n) ==
  IF n = 0 THEN {<<>>}
  ELSE LET shorter == SeqsUpTo(S, n - 1)
       IN  shorter \cup {Append(s, c) : s \in {t \in shorter : Len(t) = n - 1}, c \in S}

\* the classic example of the specification
Classic == <<"(", "a", "|", "b", ")", "*", "a", "b", "b">>

\* with it, three expressions whose direct automaton has equivalent states
\* (4 states for 3, 2 for 1, 3 for 1), a repetition whose operand starts
\* and ends at different positions, an alternation, a concatenation with a
\* nullable left operand, and an expression whose unmatched parentheses
\* leave a tree with an alternation at the root, so that position 1 has no
\* followpos entry
Examples ==
  { Classic,
    <<"a", ")", "|", "(", "b">>,
    <<"a", "b", "|", "b", "b">>,
    <<"a", "?", "a", "*">>,
    <<"a", "a", "|", "a", "*">>,
    <<"(", "a", "b", ")", "*">>,
    <<"a", "|", "b">>,
    <<"a", "*", "b">> }

Regexes == SeqsUpTo(Chars, MaxRegexLen) \cup Examples

\* the strings the specification tries on the classic example
abb == <<"a", "b", "b">>
aabb == <<"a", "a", "b", "b">>
babb == <<"b", "a", "b", "b">>
ab == <<"a", "b">>
abba == <<"a", "b", "b", "a">>
abbb == <<"a", "b", "b", "b">>

Inputs == SeqsUpTo(Sigma, MaxStrLen) \cup {abb, aabb, babb, ab, abba, abbb}

\* the longest string of Inputs
MaxInputLen == IF MaxStrLen > Len(abbb) THEN MaxStrLen ELSE Len(abbb)

\* ------------------------------------------------------------------ helpers
Range(s) == {s[i] : i \in 1..Len(s)}

\* the orders in which a Python set with the elements S can be iterated
Orders(S) == {s \in [1..Cardinality(S) -> S] : Range(s) = S}

None == [none |-> TRUE]

\* a Python dict as the sequence of its items in insertion order
DictHas(d, k) == \E i \in 1..Len(d) : d[i].key = k
DictGet(d, k) == d[CHOOSE i \in 1..Len(d) : d[i].key = k].val
DictSet(d, k, v) ==
  IF DictHas(d, k)
  THEN [i \in 1..Len(d) |-> IF d[i].key = k THEN [key |-> k, val |-> v] ELSE d[i]]
  ELSE Append(d, [key |-> k, val |-> v])

\* ------------------------------------------------------------------ __init__
augmented_regex(regex) == <<"(">> \o regex \o <<")", "#">>

alphabet_of(regex) == {regex[i] : i \in 1..Len(regex)} \ {"(", ")", "*", "|", "+", "?", ".", "#"}

\* ------------------------------------------------------------------ infix_to_postfix
RECURSIVE explicit_regex(_, _)
explicit_regex(regex, i) ==
  IF i = Len(regex) THEN <<regex[i]>>
  ELSE <<regex[i]>>
       \o (IF regex[i] \notin {"(", "|"} /\ regex[i + 1] \notin {")", "|", "*", "+", "?"}
           THEN <<".">> ELSE <<>>)
       \o explicit_regex(regex, i + 1)

precedence(c) ==
  CASE c = "|" -> 1
    [] c = "." -> 2
    [] c \in {"*", "+", "?"} -> 3
    [] OTHER -> 0

Top(stack) == stack[Len(stack)]
Pop(stack) == SubSeq(stack, 1, Len(stack) - 1)

\* while stack and stack[-1] != '(': output.append(stack.pop())
RECURSIVE pop_to_paren(_)
pop_to_paren(st) ==
  IF st.stack # <<>> /\ Top(st.stack) # "("
  THEN pop_to_paren([output |-> Append(st.output, Top(st.stack)), stack |-> Pop(st.stack)])
  ELSE st

\* while stack and stack[-1] != '(' and precedence(stack[-1]) >= precedence(char)
RECURSIVE pop_higher(_, _)
pop_higher(st, char) ==
  IF st.stack # <<>> /\ Top(st.stack) # "(" /\ precedence(Top(st.stack)) >= precedence(char)
  THEN pop_higher([output |-> Append(st.output, Top(st.stack)), stack |-> Pop(st.stack)], char)
  ELSE st

shunt_char(st, char) ==
  IF char \notin {"(", ")", "|", "*", "+", "?", "."}
  THEN [st EXCEPT !.output = Append(@, char)]
  ELSE IF char = "("
  THEN [st EXCEPT !.stack = Append(@, char)]
  ELSE IF char = ")"
  THEN LET p == pop_to_paren(st)
       IN  IF p.stack # <<>> /\ Top(p.stack) = "(" THEN [p EXCEPT !.stack = Pop(@)] ELSE p
  ELSE LET p == pop_higher(st, char)
       IN  [p EXCEPT !.stack = Append(@, char)]

RECURSIVE shunt(_, _, _)
shunt(regex, i, st) ==
  IF i > Len(regex) THEN st ELSE shunt(regex, i + 1, shunt_char(st, regex[i]))

\* while stack: output.append(stack.pop())
RECURSIVE drain(_)
drain(st) ==
  IF st.stack = <<>> THEN st.output
  ELSE drain([output |-> Append(st.output, Top(st.stack)), stack |-> Pop(st.stack)])

infix_to_postfix(regex) ==
  drain(shunt(explicit_regex(regex, 1), 1, [output |-> <<>>, stack |-> <<>>]))

\* ------------------------------------------------------------------ build_syntax_tree
\* Node objects live in a heap: a node is its index in `nodes`, 0 is None.
\* nullable is None until calculate_tree_properties sets it; None is falsy
\* and is written FALSE.
\* the empty-string marker of the source (one Greek letter there)
Epsilon == "eps"

Node(data) ==
  [data |-> data, left |-> 0, right |-> 0, nullable |-> FALSE,
   firstpos |-> {}, lastpos |-> {}, position |-> 0]

build_char(b, char) ==
  IF b.raised THEN b
  ELSE IF char \in {"*", "+", "?"}
  THEN IF b.stack = <<>> THEN [b EXCEPT !.raised = TRUE]
       ELSE [b EXCEPT !.nodes = Append(@, [Node(char) EXCEPT !.left = Top(b.stack)]),
                      !.stack = Append(Pop(@), Len(b.nodes) + 1)]
  ELSE IF char \in {"|", "."}
  THEN IF Len(b.stack) < 2 THEN [b EXCEPT !.raised = TRUE]
       ELSE [b EXCEPT !.nodes = Append(@, [Node(char) EXCEPT !.right = Top(b.stack),
                                                             !.left = Top(Pop(b.stack))]),
                      !.stack = Append(Pop(Pop(@)), Len(b.nodes) + 1)]
  ELSE \* a symbol of the alphabet, '#', or a '(' left over by infix_to_postfix
       IF char # Epsilon
       THEN [b EXCEPT !.nodes = Append(@, [Node(char) EXCEPT !.position = b.next_pos]),
                      !.pos_to_symbol = Append(@, char),
                      !.next_pos = @ + 1,
                      !.stack = Append(@, Len(b.nodes) + 1)]
       ELSE [b EXCEPT !.nodes = Append(@, Node(char)),
                      !.stack = Append(@, Len(b.nodes) + 1)]

RECURSIVE build_loop(_, _, _)
build_loop(postfix, i, b) ==
  IF i > Len(postfix) THEN b ELSE build_loop(postfix, i + 1, build_char(b, postfix[i]))

\* pos_to_symbol is the dict {1: c1, 2: c2, ...}: its keys are 1..next_pos-1
\* in insertion order, so it is the sequence of its values.
build_syntax_tree(postfix, p2s, next) ==
  LET b == build_loop(postfix, 1, [stack |-> <<>>, nodes |-> <<>>, raised |-> FALSE,
                                   pos_to_symbol |-> p2s, next_pos |-> next])
  IN  [b EXCEPT !.raised = b.raised \/ Len(b.stack) # 1]

\* ------------------------------------------------------------------ calculate_tree_properties
node_nullable(nodes, n, alph) ==
  LET node == nodes[n]
  IN  IF node.data = Epsilon THEN TRUE
      ELSE IF node.data \in alph \/ node.data = "#" THEN FALSE
      ELSE IF node.data = "|" THEN nodes[node.left].nullable \/ nodes[node.right].nullable
      ELSE IF node.data = "." THEN nodes[node.left].nullable /\ nodes[node.right].nullable
      ELSE IF node.data \in {"*", "?"} THEN TRUE
      ELSE IF node.data = "+" THEN nodes[node.left].nullable
      ELSE node.nullable

\* a firstpos that forgets a nullable left operand of a concatenation
node_firstpos_no_nullable(nodes, n, alph) ==
  LET node == nodes[n]
  IN  IF node.data = Epsilon THEN {}
      ELSE IF node.data \in alph \/ node.data = "#" THEN {node.position}
      ELSE IF node.data = "|" THEN nodes[node.left].firstpos \cup nodes[node.right].firstpos
      ELSE IF node.data \in {".", "*", "+", "?"} THEN nodes[node.left].firstpos
      ELSE node.firstpos

node_firstpos(nodes, n, alph) ==
  LET node == nodes[n]
  IN  IF node.data = Epsilon THEN {}
      ELSE IF node.data \in alph \/ node.data = "#" THEN {node.position}
      ELSE IF node.data = "|" THEN nodes[node.left].firstpos \cup nodes[node.right].firstpos
      ELSE IF node.data = "."
      THEN IF nodes[node.left].nullable
           THEN nodes[node.left].firstpos \cup nodes[node.right].firstpos
           ELSE nodes[node.left].firstpos
      ELSE IF node.data \in {"*", "+", "?"} THEN nodes[node.left].firstpos
      ELSE node.firstpos

\* a lastpos that gives a repetition or an option the firstpos of its operand
node_lastpos_unary_firstpos(nodes, n, alph) ==
  LET node == nodes[n]
  IN  IF node.data = Epsilon THEN {}
      ELSE IF node.data \in alph \/ node.data = "#" THEN {node.position}
      ELSE IF node.data = "|" THEN nodes[node.left].lastpos \cup nodes[node.right].lastpos
      ELSE IF node.data = "."
      THEN IF nodes[node.right].nullable
           THEN nodes[node.left].lastpos \cup nodes[node.right].lastpos
           ELSE nodes[node.right].lastpos
      ELSE IF node.data \in {"*", "+", "?"} THEN nodes[node.left].firstpos
      ELSE node.lastpos

node_lastpos(nodes, n, alph) ==
  LET node == nodes[n]
  IN  IF node.data = Epsilon THEN {}
      ELSE IF node.data \in alph \/ node.data = "#" THEN {node.position}
      ELSE IF node.data = "|" THEN nodes[node.left].lastpos \cup nodes[node.right].lastpos
      ELSE IF node.data = "."
      THEN IF nodes[node.right].nullable
           THEN nodes[node.left].lastpos \cup nodes[node.right].lastpos
           ELSE nodes[node.right].lastpos
      ELSE IF node.data \in {"*", "+", "?"} THEN nodes[node.left].lastpos
      ELSE node.lastpos

\* post-order: the children first, then the three attributes of the node
RECURSIVE calculate_tree_properties(_, _, _)
calculate_tree_properties(nodes, n, alph) ==
  IF n = 0 THEN nodes
  ELSE LET l == calculate_tree_properties(nodes, nodes[n].left, alph)
           r == calculate_tree_properties(l, nodes[n].right, alph)
           a == [r EXCEPT ![n].nullable = node_nullable(r, n, alph)]
           b == [a EXCEPT ![n].firstpos = node_firstpos(a, n, alph)]
       IN  [b EXCEPT ![n].lastpos = node_lastpos(b, n, alph)]

\* ------------------------------------------------------------------ calculate_followpos
\* followpos is a defaultdict(set): a function whose domain is the keys
\* present; reading a missing key yields the empty set and inserts the key.
follow_get(followpos, p) == IF p \in DOMAIN followpos THEN followpos[p] ELSE {}

\* for i in from_set: followpos[i] = followpos[i].union(to_set)
follow_add(followpos, from_set, to_set) ==
  [q \in DOMAIN followpos \cup from_set |->
     IF q \in from_set THEN follow_get(followpos, q) \cup to_set ELSE followpos[q]]

RECURSIVE calculate_followpos(_, _, _)
calculate_followpos(nodes, n, followpos) ==
  IF n = 0 THEN followpos
  ELSE LET node == nodes[n]
           c == IF node.data = "."
                THEN follow_add(followpos, nodes[node.left].lastpos, nodes[node.right].firstpos)
                ELSE followpos
           s == IF node.data \in {"*", "+"}
                THEN follow_add(c, node.lastpos, node.firstpos)
                ELSE c
           l == calculate_followpos(nodes, node.left, s)
       IN  calculate_followpos(nodes, node.right, l)

\* ------------------------------------------------------------------ parse_regex
\* The fields the call leaves behind.  When build_syntax_tree raises, the
\* positions it had already recorded stay in pos_to_symbol and next_pos, and
\* syntax_tree and followpos are as before the call.
NoFollow == [p \in {} |-> {}]

parse_regex(regex, alph, p2s, next, tree, followpos) ==
  LET postfix == infix_to_postfix(augmented_regex(regex))
      b == build_syntax_tree(postfix, p2s, next)
      root == Top(b.stack)
      nodes == calculate_tree_properties(b.nodes, root, alph)
  IN  IF b.raised
      THEN [raised |-> "ValueError", pos_to_symbol |-> b.pos_to_symbol,
            next_pos |-> b.next_pos, syntax_tree |-> tree, followpos |-> followpos]
      ELSE [raised |-> "", pos_to_symbol |-> b.pos_to_symbol, next_pos |-> b.next_pos,
            syntax_tree |-> [nodes |-> nodes, root |-> root],
            followpos |-> calculate_followpos(nodes, root, followpos)]

\* ------------------------------------------------------------------ construct_dfa
\* for pos, symbol in pos_to_symbol.items(): the first position holding '#'
end_pos_of(p2s) ==
  IF \E p \in 1..Len(p2s) : p2s[p] = "#"
  THEN CHOOSE p \in 1..Len(p2s) : p2s[p] = "#" /\ \A q \in 1..(p - 1) : p2s[q] # "#"
  ELSE 0

\* the body of `for symbol in self.alphabet` for one symbol
construct_symbol(c, current_state, symbol, p2s) ==
  LET hits == {pos \in current_state : pos \in 1..Len(p2s) /\ p2s[pos] = symbol}
      next_state_positions == UNION {follow_get(c.followpos, pos) : pos \in hits}
      \* reading followpos[pos] inserts the key
      fp == follow_add(c.followpos, hits, {})
      fresh == next_state_positions \notin DOMAIN c.states
      states == IF fresh
                THEN [x \in DOMAIN c.states \cup {next_state_positions} |->
                        IF x = next_state_positions
                        THEN Cardinality(DOMAIN c.states) ELSE c.states[x]]
                ELSE c.states
  IN  IF next_state_positions = {}
      THEN [c EXCEPT !.followpos = fp]
      ELSE [c EXCEPT !.followpos = fp,
                     !.states = states,
                     !.unmarked_states = IF fresh THEN Append(@, next_state_positions) ELSE @,
                     !.transitions = DictSet(@, <<states[current_state], symbol>>,
                                             states[next_state_positions])]

RECURSIVE construct_symbols(_, _, _, _, _)
construct_symbols(c, current_state, alph, i, p2s) ==
  IF i > Len(alph) THEN c
  ELSE construct_symbols(construct_symbol(c, current_state, alph[i], p2s),
                         current_state, alph, i + 1, p2s)

\* current_state = unmarked_states.pop(0), and the test for a final state
construct_pop(c, end_pos) ==
  LET current_state == Head(c.unmarked_states)
  IN  [c EXCEPT !.unmarked_states = Tail(@),
                !.final_states = IF end_pos \in current_state
                                 THEN @ \cup {c.states[current_state]} ELSE @]

\* one turn of `while unmarked_states`
construct_step(c, alph, p2s, end_pos) ==
  construct_symbols(construct_pop(c, end_pos), Head(c.unmarked_states), alph, 1, p2s)

RECURSIVE construct_loop(_, _, _, _)
construct_loop(c, alph, p2s, end_pos) ==
  IF c.unmarked_states = <<>> THEN c
  ELSE construct_loop(construct_step(c, alph, p2s, end_pos), alph, p2s, end_pos)

construct_init(tree, followpos) ==
  LET initial_state == tree.nodes[tree.root].firstpos
  IN  [states |-> [x \in {initial_state} |-> 0],
       unmarked_states |-> <<initial_state>>,
       transitions |-> <<>>,
       final_states |-> {},
       followpos |-> followpos]

\* alph is the alphabet in the order the set is iterated
construct_dfa(tree, alph, p2s, followpos) ==
  IF tree = None
  THEN [raised |-> "AttributeError", dfa |-> None, states |-> None, followpos |-> followpos]
  ELSE IF end_pos_of(p2s) = 0
  THEN [raised |-> "ValueError", dfa |-> None, states |-> None, followpos |-> followpos]
  ELSE LET c == construct_loop(construct_init(tree, followpos), alph, p2s, end_pos_of(p2s))
       IN  [raised |-> "",
            dfa |-> [states |-> Cardinality(DOMAIN c.states),
                     initial |-> 0,
                     final_states |-> c.final_states,
                     transitions |-> c.transitions],
            states |-> c.states,
            followpos |-> c.followpos]

\* ------------------------------------------------------------------ minimize_dfa
\* x in a list, and list.remove(x): the first equal element goes
InList(l, x) == \E i \in 1..Len(l) : l[i] = x

RemoveFirst(l, x) ==
  LET k == CHOOSE i \in 1..Len(l) : l[i] = x /\ \A j \in 1..(i - 1) : l[j] # x
  IN  SubSeq(l, 1, k - 1) \o SubSeq(l, k + 1, Len(l))

\* predecessors that forget to look where the transition leads
predecessors_any_target(dfa, current_set, symbol) ==
  {state \in 0..(dfa.states - 1) : DictHas(dfa.transitions, <<state, symbol>>)}

\* the states that reach current_set on symbol
predecessors_of(dfa, current_set, symbol) ==
  {state \in 0..(dfa.states - 1) :
     /\ DictHas(dfa.transitions, <<state, symbol>>)
     /\ DictGet(dfa.transitions, <<state, symbol>>) \in current_set}

\* a split that enqueues nothing when the block split was not pending
split_partition_no_enqueue(m, partition, predecessors) ==
  LET intersection == partition \cap predecessors
      difference == partition \ predecessors
  IN  IF intersection # {} /\ difference # {}
      THEN [new_partitions |-> m.new_partitions \o <<intersection, difference>>,
            workset |->
              IF InList(m.workset, partition)
              THEN RemoveFirst(m.workset, partition) \o <<intersection, difference>>
              ELSE m.workset]
      ELSE [m EXCEPT !.new_partitions = Append(@, partition)]

\* a split that puts a block it could not split back on the workset
split_partition_requeue(m, partition, predecessors) ==
  LET intersection == partition \cap predecessors
      difference == partition \ predecessors
  IN  IF intersection # {} /\ difference # {}
      THEN [new_partitions |-> m.new_partitions \o <<intersection, difference>>,
            workset |->
              IF InList(m.workset, partition)
              THEN RemoveFirst(m.workset, partition) \o <<intersection, difference>>
              ELSE IF Cardinality(intersection) <= Cardinality(difference)
                   THEN Append(m.workset, intersection)
                   ELSE Append(m.workset, difference)]
      ELSE [new_partitions |-> Append(m.new_partitions, partition),
            workset |-> Append(m.workset, partition)]

\* the body of `for partition in partitions` for one partition; m holds
\* new_partitions and workset
split_partition(m, partition, predecessors) ==
  LET intersection == partition \cap predecessors
      difference == partition \ predecessors
  IN  IF intersection # {} /\ difference # {}
      THEN [new_partitions |-> m.new_partitions \o <<intersection, difference>>,
            workset |->
              IF InList(m.workset, partition)
              THEN RemoveFirst(m.workset, partition) \o <<intersection, difference>>
              ELSE IF Cardinality(intersection) <= Cardinality(difference)
                   THEN Append(m.workset, intersection)
                   ELSE Append(m.workset, difference)]
      ELSE [m EXCEPT !.new_partitions = Append(@, partition)]

RECURSIVE split_partitions(_, _, _, _)
split_partitions(m, partitions, i, predecessors) ==
  IF i > Len(partitions) THEN m
  ELSE split_partitions(split_partition(m, partitions[i], predecessors),
                        partitions, i + 1, predecessors)

\* the body of `for symbol in self.alphabet` for one symbol; h holds
\* partitions and workset
refine_symbol(h, dfa, current_set, symbol) ==
  LET m == split_partitions([new_partitions |-> <<>>, workset |-> h.workset],
                            h.partitions, 1, predecessors_of(dfa, current_set, symbol))
  IN  [partitions |-> m.new_partitions, workset |-> m.workset]

RECURSIVE refine_symbols(_, _, _, _, _)
refine_symbols(h, dfa, current_set, alph, i) ==
  IF i > Len(alph) THEN h
  ELSE refine_symbols(refine_symbol(h, dfa, current_set, alph[i]), dfa, current_set, alph, i + 1)

\* one turn of `while workset`
refine_step(h, dfa, alph) ==
  refine_symbols([h EXCEPT !.workset = Tail(@)], dfa, Head(h.workset), alph, 1)

RECURSIVE refine_loop(_, _, _)
refine_loop(h, dfa, alph) ==
  IF h.workset = <<>> THEN h ELSE refine_loop(refine_step(h, dfa, alph), dfa, alph)

\* [non-final states, final states] without the empty ones, also the first workset
initial_partitions(dfa) ==
  LET non_final == (0..(dfa.states - 1)) \ dfa.final_states
  IN  (IF non_final # {} THEN <<non_final>> ELSE <<>>)
      \o (IF dfa.final_states # {} THEN <<dfa.final_states>> ELSE <<>>)

\* a state_mapping that numbers the blocks from 1
state_mapping_from_one(partitions, state) ==
  CHOOSE i \in 1..Len(partitions) :
    state \in partitions[i] /\ \A j \in (i + 1)..Len(partitions) : state \notin partitions[j]

\* state_mapping[state] = i for the last block i (from 0) that holds state
state_mapping(partitions, state) ==
  (CHOOSE i \in 1..Len(partitions) :
     state \in partitions[i] /\ \A j \in (i + 1)..Len(partitions) : state \notin partitions[j]) - 1

\* for (src, symbol), dest in transitions.items(): new_transitions[...] = ...
RECURSIVE remap_transitions(_, _, _, _)
remap_transitions(transitions, partitions, i, new_transitions) ==
  IF i > Len(transitions) THEN new_transitions
  ELSE remap_transitions(transitions, partitions, i + 1,
         DictSet(new_transitions,
                 <<state_mapping(partitions, transitions[i].key[1]), transitions[i].key[2]>>,
                 state_mapping(partitions, transitions[i].val)))

\* a rebuild that keeps the state count of the automaton it started from
rebuild_old_count(dfa, partitions) ==
  [states |-> dfa.states,
   initial |-> state_mapping(partitions, dfa.initial),
   final_states |-> {state_mapping(partitions, f) : f \in dfa.final_states},
   transitions |-> remap_transitions(dfa.transitions, partitions, 1, <<>>)]

\* a rebuild that keeps the final state ids of the automaton it started from
rebuild_old_finals(dfa, partitions) ==
  [states |-> Len(partitions),
   initial |-> state_mapping(partitions, dfa.initial),
   final_states |-> dfa.final_states,
   transitions |-> remap_transitions(dfa.transitions, partitions, 1, <<>>)]

rebuild(dfa, partitions) ==
  [states |-> Len(partitions),
   initial |-> state_mapping(partitions, dfa.initial),
   final_states |-> {state_mapping(partitions, f) : f \in dfa.final_states},
   transitions |-> remap_transitions(dfa.transitions, partitions, 1, <<>>)]

\* partitions when `while workset` ends
final_partitions(dfa, alph) ==
  LET p0 == initial_partitions(dfa)
  IN  refine_loop([partitions |-> p0, workset |-> p0], dfa, alph).partitions

\* the automaton minimize_dfa builds from dfa (a dict, never None here)
minimize(dfa, alph) == rebuild(dfa, final_partitions(dfa, alph))

\* ------------------------------------------------------------------ simulate_dfa
RECURSIVE run_dfa(_, _, _, _, _)
run_dfa(dfa, alph, input_string, i, current_state) ==
  IF i > Len(input_string) THEN current_state \in dfa.final_states
  ELSE IF input_string[i] \notin alph THEN FALSE
  ELSE IF DictHas(dfa.transitions, <<current_state, input_string[i]>>)
  THEN run_dfa(dfa, alph, input_string, i + 1,
               DictGet(dfa.transitions, <<current_state, input_string[i]>>))
  ELSE FALSE

\* a dict with its four keys is truthy, None is not
Truthy(d) == d # None

\* a simulate_dfa that gives up when the minimized automaton is asked for
\* and is not there
simulate_dfa_no_fallback(d, md, alph, input_string, minimized) ==
  IF minimized
  THEN IF Truthy(md)
       THEN [raised |-> "", ret |-> run_dfa(md, alph, input_string, 1, md.initial)]
       ELSE [raised |-> "ValueError", ret |-> FALSE]
  ELSE IF Truthy(d)
  THEN [raised |-> "", ret |-> run_dfa(d, alph, input_string, 1, d.initial)]
  ELSE [raised |-> "ValueError", ret |-> FALSE]

simulate_dfa(d, md, alph, input_string, minimized) ==
  IF minimized /\ Truthy(md)
  THEN [raised |-> "", ret |-> run_dfa(md, alph, input_string, 1, md.initial)]
  ELSE IF Truthy(d)
  THEN [raised |-> "", ret |-> run_dfa(d, alph, input_string, 1, d.initial)]
  ELSE [raised |-> "ValueError", ret |-> FALSE]

\* ------------------------------------------------------------------ the instance
VARIABLES
  original_regex,   \* self.original_regex
  alphabet,         \* self.alphabet, as the sequence in which the set is iterated
  pos_to_symbol,    \* self.pos_to_symbol
  next_pos,         \* self.next_pos
  followpos,        \* self.followpos
  syntax_tree,      \* self.syntax_tree: None or [nodes, root]
  dfa,              \* self.dfa: None or the automaton record
  minimized_dfa,    \* self.minimized_dfa: None or the automaton record
  states,           \* the local `states` of the last construct_dfa that returned
  parse_calls,      \* how many times parse_regex has been entered
  last,             \* the last call: its name and the exception it raised or, for
                    \* a simulate_dfa that returned, its arguments and result
  frame             \* the locals of a construct_dfa or minimize_dfa call that is
                    \* inside its while loop; None when no call is in progress

vars == <<original_regex, alphabet, pos_to_symbol, next_pos, followpos, syntax_tree,
          dfa, minimized_dfa, states, parse_calls, last, frame>>

Call(op, raised) ==
  [op |-> op, raised |-> raised, ret |-> FALSE, input |-> <<>>, minimized |-> FALSE]

Init ==
  /\ original_regex \in Regexes
  /\ alphabet \in Orders(alphabet_of(original_regex))
  /\ pos_to_symbol = <<>>
  /\ next_pos = 1
  /\ followpos = NoFollow
  /\ syntax_tree = None
  /\ dfa = None
  /\ minimized_dfa = None
  /\ states = None
  /\ parse_calls = 0
  /\ last = Call("__init__", "")
  /\ frame = None

ParseRegex ==
  /\ frame = None
  /\ parse_calls < MaxParses
  /\ LET r == parse_regex(original_regex, Range(alphabet), pos_to_symbol, next_pos,
                          syntax_tree, followpos)
     IN  /\ pos_to_symbol' = r.pos_to_symbol
         /\ next_pos' = r.next_pos
         /\ syntax_tree' = r.syntax_tree
         /\ followpos' = r.followpos
         /\ last' = Call("parse_regex", r.raised)
  /\ parse_calls' = parse_calls + 1
  /\ UNCHANGED <<original_regex, alphabet, dfa, minimized_dfa, states, frame>>

ConstructDfa ==
  /\ frame = None
  /\ LET r == construct_dfa(syntax_tree, alphabet, pos_to_symbol, followpos)
     IN  /\ last' = Call("construct_dfa", r.raised)
         /\ IF r.raised = ""
            THEN dfa' = r.dfa /\ states' = r.states /\ followpos' = r.followpos
            ELSE UNCHANGED <<dfa, states, followpos>>
  /\ UNCHANGED <<original_regex, alphabet, pos_to_symbol, next_pos, syntax_tree,
                 minimized_dfa, parse_calls, frame>>

MinimizeDfa ==
  /\ frame = None
  /\ IF Truthy(dfa)
     THEN /\ minimized_dfa' = minimize(dfa, alphabet)
          /\ last' = Call("minimize_dfa", "")
     ELSE /\ last' = Call("minimize_dfa", "ValueError")
          /\ UNCHANGED minimized_dfa
  /\ UNCHANGED <<original_regex, alphabet, pos_to_symbol, next_pos, followpos, syntax_tree,
                 dfa, states, parse_calls, frame>>

SimulateDfa ==
  /\ frame = None
  /\ \E input_string \in Inputs, minimized \in BOOLEAN :
       LET r == simulate_dfa(dfa, minimized_dfa, Range(alphabet), input_string, minimized)
       IN  last' = IF r.raised = ""
                   THEN [op |-> "simulate_dfa", raised |-> "", ret |-> r.ret,
                         input |-> input_string, minimized |-> minimized]
                   ELSE Call("simulate_dfa", r.raised)
  /\ UNCHANGED <<original_regex, alphabet, pos_to_symbol, next_pos, followpos, syntax_tree,
                 dfa, minimized_dfa, states, parse_calls, frame>>

\* process(): parse_regex, construct_dfa, minimize_dfa; the first exception ends it
Process ==
  /\ frame = None
  /\ parse_calls < MaxParses
  /\ LET p == parse_regex(original_regex, Range(alphabet), pos_to_symbol, next_pos,
                          syntax_tree, followpos)
         c == construct_dfa(p.syntax_tree, alphabet, p.pos_to_symbol, p.followpos)
     IN  /\ pos_to_symbol' = p.pos_to_symbol
         /\ next_pos' = p.next_pos
         /\ syntax_tree' = p.syntax_tree
         /\ IF p.raised # ""
            THEN /\ last' = Call("process", p.raised)
                 /\ followpos' = p.followpos
                 /\ UNCHANGED <<dfa, states, minimized_dfa>>
            ELSE IF c.raised # ""
            THEN /\ last' = Call("process", c.raised)
                 /\ followpos' = p.followpos
                 /\ UNCHANGED <<dfa, states, minimized_dfa>>
            ELSE /\ last' = Call("process", "")
                 /\ followpos' = c.followpos
                 /\ dfa' = c.dfa
                 /\ states' = c.states
                 /\ minimized_dfa' = minimize(c.dfa, alphabet)
  /\ parse_calls' = parse_calls + 1
  /\ UNCHANGED <<original_regex, alphabet, frame>>

Next == ParseRegex \/ ConstructDfa \/ MinimizeDfa \/ SimulateDfa \/ Process

Spec == Init /\ [][Next]_vars

\* ------------------------------------------------------------------ the two while loops, step by step
\* construct_dfa and minimize_dfa with the statements of their while loops
\* as steps of their own.  frame.i = 0 at the test of the while; otherwise
\* the body of `for symbol in self.alphabet` is about to run for
\* alphabet[frame.i].  self.followpos is the object construct_dfa reads, so
\* every step leaves its insertions in followpos.
first_symbol == IF alphabet = <<>> THEN 0 ELSE 1
symbol_after(i) == IF i = Len(alphabet) THEN 0 ELSE i + 1

ConstructDfaEnter ==
  /\ frame = None
  /\ IF syntax_tree = None
     THEN last' = Call("construct_dfa", "AttributeError") /\ UNCHANGED frame
     ELSE IF end_pos_of(pos_to_symbol) = 0
     THEN last' = Call("construct_dfa", "ValueError") /\ UNCHANGED frame
     ELSE /\ frame' = [op |-> "construct_dfa", c |-> construct_init(syntax_tree, followpos),
                       current_state |-> {}, i |-> 0]
          /\ UNCHANGED last
  /\ UNCHANGED <<original_regex, alphabet, pos_to_symbol, next_pos, followpos, syntax_tree,
                 dfa, minimized_dfa, states, parse_calls>>

InConstructDfa == frame # None /\ frame.op = "construct_dfa"

\* while unmarked_states: current_state = unmarked_states.pop(0)
ConstructDfaPop ==
  /\ InConstructDfa
  /\ frame.i = 0
  /\ frame.c.unmarked_states # <<>>
  /\ frame' = [frame EXCEPT !.c = construct_pop(@, end_pos_of(pos_to_symbol)),
                            !.current_state = Head(frame.c.unmarked_states),
                            !.i = first_symbol]
  /\ UNCHANGED <<original_regex, alphabet, pos_to_symbol, next_pos, followpos, syntax_tree,
                 dfa, minimized_dfa, states, parse_calls, last>>

\* the body of `for symbol in self.alphabet` for the next symbol
ConstructDfaSymbol ==
  /\ InConstructDfa
  /\ frame.i > 0
  /\ LET c == construct_symbol(frame.c, frame.current_state, alphabet[frame.i], pos_to_symbol)
     IN  /\ frame' = [frame EXCEPT !.c = c, !.i = symbol_after(@)]
         /\ followpos' = c.followpos
  /\ UNCHANGED <<original_regex, alphabet, pos_to_symbol, next_pos, syntax_tree,
                 dfa, minimized_dfa, states, parse_calls, last>>

\* unmarked_states is empty: self.dfa = {...}; return
ConstructDfaReturn ==
  /\ InConstructDfa
  /\ frame.i = 0
  /\ frame.c.unmarked_states = <<>>
  /\ dfa' = [states |-> Cardinality(DOMAIN frame.c.states),
             initial |-> 0,
             final_states |-> frame.c.final_states,
             transitions |-> frame.c.transitions]
  /\ states' = frame.c.states
  /\ frame' = None
  /\ last' = Call("construct_dfa", "")
  /\ UNCHANGED <<original_regex, alphabet, pos_to_symbol, next_pos, followpos, syntax_tree,
                 minimized_dfa, parse_calls>>

\* frame.h holds partitions and workset; frame.j is the index in partitions
\* of the block `for partition in partitions` comes to next
MinimizeDfaEnter ==
  /\ frame = None
  /\ IF Truthy(dfa)
     THEN /\ frame' = [op |-> "minimize_dfa",
                       h |-> [partitions |-> initial_partitions(dfa),
                              workset |-> initial_partitions(dfa)],
                       current_set |-> {}, i |-> 0, j |-> 1, new_partitions |-> <<>>]
          /\ UNCHANGED last
     ELSE last' = Call("minimize_dfa", "ValueError") /\ UNCHANGED frame
  /\ UNCHANGED <<original_regex, alphabet, pos_to_symbol, next_pos, followpos, syntax_tree,
                 dfa, minimized_dfa, states, parse_calls>>

InMinimizeDfa == frame # None /\ frame.op = "minimize_dfa"

\* while workset: current_set = workset.pop(0)
MinimizeDfaPop ==
  /\ InMinimizeDfa
  /\ frame.i = 0
  /\ frame.h.workset # <<>>
  /\ frame' = [frame EXCEPT !.h.workset = Tail(@),
                            !.current_set = Head(frame.h.workset),
                            !.i = first_symbol]
  /\ UNCHANGED <<original_regex, alphabet, pos_to_symbol, next_pos, followpos, syntax_tree,
                 dfa, minimized_dfa, states, parse_calls, last>>

\* the body of `for partition in partitions` for the next block; after the
\* last block, partitions = new_partitions and the next symbol
MinimizeDfaPartition ==
  /\ InMinimizeDfa
  /\ frame.i > 0
  /\ LET m == split_partition([new_partitions |-> frame.new_partitions,
                               workset |-> frame.h.workset],
                              frame.h.partitions[frame.j],
                              predecessors_of(dfa, frame.current_set, alphabet[frame.i]))
     IN  frame' = IF frame.j < Len(frame.h.partitions)
                  THEN [frame EXCEPT !.h.workset = m.workset,
                                     !.new_partitions = m.new_partitions,
                                     !.j = @ + 1]
                  ELSE [frame EXCEPT !.h = [partitions |-> m.new_partitions,
                                            workset |-> m.workset],
                                     !.new_partitions = <<>>,
                                     !.j = 1,
                                     !.i = symbol_after(@)]
  /\ UNCHANGED <<original_regex, alphabet, pos_to_symbol, next_pos, followpos, syntax_tree,
                 dfa, minimized_dfa, states, parse_calls, last>>

\* workset is empty: self.minimized_dfa = {...}; return
MinimizeDfaReturn ==
  /\ InMinimizeDfa
  /\ frame.i = 0
  /\ frame.h.workset = <<>>
  /\ minimized_dfa' = rebuild(dfa, frame.h.partitions)
  /\ frame' = None
  /\ last' = Call("minimize_dfa", "")
  /\ UNCHANGED <<original_regex, alphabet, pos_to_symbol, next_pos, followpos, syntax_tree,
                 dfa, states, parse_calls>>

\* a loop that has been entered runs on: the interpreter executes its next
\* statement as long as the loop has one
Running == ConstructDfaPop \/ ConstructDfaSymbol \/ MinimizeDfaPop \/ MinimizeDfaPartition

NextLoops ==
  \/ ParseRegex
  \/ ConstructDfaEnter
  \/ ConstructDfaPop
  \/ ConstructDfaSymbol
  \/ ConstructDfaReturn
  \/ MinimizeDfaEnter
  \/ MinimizeDfaPop
  \/ MinimizeDfaPartition
  \/ MinimizeDfaReturn

SpecLoops == Init /\ [][NextLoops]_vars /\ WF_vars(Running)

\* ------------------------------------------------------------------ the language of an expression
\* The language an expression denotes, read off its text by the grammar
\*   E ::= T | E "|" T     T ::= F | T F     F ::= A | F "*" | F "+" | F "?"
\*   A ::= symbol | "(" E ")"
\* and cut at the strings of length at most n.  It uses nothing of RegexToDFA.
Depth(s, i) ==
  Cardinality({j \in 1..i : s[j] = "("}) - Cardinality({j \in 1..i : s[j] = ")"})

Balanced(s) == Depth(s, Len(s)) = 0 /\ \A i \in 1..Len(s) : Depth(s, i) >= 0

Cat(A, B, n) == {w \in {x \o y : x \in A, y \in B} : Len(w) <= n}

RECURSIVE Closure(_, _, _)
Closure(A, acc, n) ==
  LET more == acc \cup Cat(acc, A, n)
  IN  IF more = acc THEN acc ELSE Closure(A, more, n)

Bad == [ok |-> FALSE, lang |-> {}]

RECURSIVE Denote(_, _)
Denote(s, n) ==
  LET len == Len(s)
      bars == {i \in 1..len : s[i] = "|" /\ Depth(s, i) = 0}
      \* the last character that is not a postfix operator
      cores == {i \in 1..len : s[i] \notin {"*", "+", "?"}}
      m == CHOOSE i \in cores : \A j \in cores : j <= i
      \* where the last factor starts
      k == IF s[m] = ")"
           THEN CHOOSE i \in 1..m : /\ s[i] = "(" /\ Depth(s, i - 1) = Depth(s, m)
                                    /\ \A j \in (i + 1)..m :
                                         ~(s[j] = "(" /\ Depth(s, j - 1) = Depth(s, m))
           ELSE m
  IN  IF len = 0 \/ ~Balanced(s) THEN Bad
      ELSE IF bars # {}
      THEN LET b == CHOOSE i \in bars : \A j \in bars : j <= i
               l == Denote(SubSeq(s, 1, b - 1), n)
               r == Denote(SubSeq(s, b + 1, len), n)
           IN  IF l.ok /\ r.ok THEN [ok |-> TRUE, lang |-> l.lang \cup r.lang] ELSE Bad
      ELSE IF cores = {} \/ s[m] = "(" THEN Bad
      ELSE IF k > 1
      THEN LET l == Denote(SubSeq(s, 1, k - 1), n)
               r == Denote(SubSeq(s, k, len), n)
           IN  IF l.ok /\ r.ok THEN [ok |-> TRUE, lang |-> Cat(l.lang, r.lang, n)] ELSE Bad
      ELSE IF m < len
      THEN LET c == Denote(SubSeq(s, 1, len - 1), n)
           IN  IF ~c.ok THEN Bad
               ELSE [ok |-> TRUE,
                     lang |-> CASE s[len] = "*" -> Closure(c.lang, {<<>>}, n)
                                [] s[len] = "+" -> Closure(c.lang, c.lang, n)
                                [] s[len] = "?" -> c.lang \cup {<<>>}]
      ELSE IF s[m] = ")" THEN Denote(SubSeq(s, 2, len - 1), n)
      ELSE [ok |-> TRUE, lang |-> IF n >= 1 THEN {<<s[m]>>} ELSE {}]

WellFormed(s) == Denote(s, 0).ok
Language(s) == Denote(s, MaxInputLen).lang

\* ------------------------------------------------------------------ claims
\* The automaton of a compilation run: parse_regex has been called once on
\* the instance, so dfa and minimized_dfa come from that parse.
SingleRun == parse_calls = 1

Returned(op) == last.op = op /\ last.raised = ""

\* C1: for a well-formed expression, after parse_regex and construct_dfa,
\* simulate_dfa(w, minimized=False) returns true exactly when w is in the
\* language the expression denotes.
C1_DirectAutomatonDecidesLanguage ==
  (/\ Returned("simulate_dfa") /\ ~last.minimized
   /\ SingleRun /\ WellFormed(original_regex))
  => (last.ret <=> last.input \in Language(original_regex))

C1_Witness ==
  /\ Returned("simulate_dfa") /\ ~last.minimized /\ SingleRun
  /\ WellFormed(original_regex) /\ original_regex = Classic
  /\ last.input = aabb /\ last.ret

\* minimize_dfa has just built minimized_dfa from dfa
JustMinimized == Returned("minimize_dfa") \/ Returned("process")

HasMove(d, q, c) == DictHas(d.transitions, <<q, c>>)
Move(d, q, c) == DictGet(d.transitions, <<q, c>>)

\* C2: minimization preserves the language: every input string gets the
\* same verdict from the minimized automaton as from the automaton it was
\* built from; the states of one block agree on being final, on having a
\* transition on each symbol, and on the block that transition leads to.
C2_MinimizationPreservesLanguage ==
  JustMinimized =>
    LET P == final_partitions(dfa, alphabet)
    IN  /\ \A w \in Inputs :
             simulate_dfa(dfa, minimized_dfa, Range(alphabet), w, TRUE).ret
               = simulate_dfa(dfa, minimized_dfa, Range(alphabet), w, FALSE).ret
        /\ \A i \in 1..Len(P) : \A p, q \in P[i] :
             /\ p \in dfa.final_states <=> q \in dfa.final_states
             /\ \A c \in Range(alphabet) :
                  /\ HasMove(dfa, p, c) <=> HasMove(dfa, q, c)
                  /\ HasMove(dfa, p, c) =>
                       state_mapping(P, Move(dfa, p, c)) = state_mapping(P, Move(dfa, q, c))

\* ab|bb: the states reached by a and by b are merged
C2_Witness ==
  /\ Returned("minimize_dfa")
  /\ original_regex = <<"a", "b", "|", "b", "b">>
  /\ dfa.states = 4 /\ minimized_dfa.states = 3
  /\ simulate_dfa(dfa, minimized_dfa, Range(alphabet), <<"b", "b">>, TRUE).ret

\* does the automaton d accept w when started in state q
AcceptsFrom(d, q, w) == run_dfa(d, Range(alphabet), w, 1, q)

\* a string on which exactly one of the states p and q of d accepts; two
\* states of an automaton of n states that differ at all differ on a string
\* of length at most n
Distinguishable(d, p, q) ==
  \E w \in SeqsUpTo(Range(alphabet), d.states) : AcceptsFrom(d, p, w) # AcceptsFrom(d, q, w)

\* C3: the automaton minimize_dfa returns has no more states than the one it
\* was built from, and any two of its states are told apart by some string.
C3_MinimizedIsMinimal ==
  (JustMinimized /\ SingleRun) =>
    /\ minimized_dfa.states <= dfa.states
    /\ \A p, q \in 0..(minimized_dfa.states - 1) :
         p # q => Distinguishable(minimized_dfa, p, q)

\* a?a*: two states, both final and looping on a, become one
C3_Witness ==
  /\ Returned("minimize_dfa") /\ SingleRun
  /\ original_regex = <<"a", "?", "a", "*">>
  /\ dfa.states = 2 /\ minimized_dfa.states = 1

\* C4: for (a|b)*abb, process() leaves a minimized automaton of exactly 4
\* states, and simulate_dfa accepts abb, aabb and babb and rejects ab and abba.
C4_ClassicExample ==
  (original_regex = Classic /\ SingleRun) =>
    /\ Returned("process") => minimized_dfa.states = 4
    /\ (Returned("simulate_dfa") /\ minimized_dfa # None) =>
         /\ last.input \in {abb, aabb, babb} => last.ret
         /\ last.input \in {ab, abba} => ~last.ret

C4_Witness ==
  /\ original_regex = Classic /\ SingleRun /\ minimized_dfa # None
  /\ minimized_dfa.states = 4
  /\ Returned("simulate_dfa") /\ last.minimized /\ last.input = babb /\ last.ret

\* C5 as stated: for (a|b)*abb, after process(), simulate_dfa("abbb")
\* returns true on the original and on the minimized automaton.
C5_AbbbAccepted ==
  (/\ original_regex = Classic /\ SingleRun /\ minimized_dfa # None
   /\ Returned("simulate_dfa") /\ last.input = abbb)
  => last.ret

\* C5 amended: for (a|b)*abb, after process(), simulate_dfa("abbb") returns
\* false on the original and on the minimized automaton: abbb does not end
\* in abb.
C5_AbbbRejected ==
  (/\ original_regex = Classic /\ SingleRun /\ minimized_dfa # None
   /\ Returned("simulate_dfa") /\ last.input = abbb)
  => ~last.ret

C5_Witness ==
  /\ original_regex = Classic /\ SingleRun /\ minimized_dfa # None
  /\ Returned("simulate_dfa") /\ last.minimized /\ last.input = abbb /\ ~last.ret

\* C6 as stated: an expression whose parentheses do not match is detected:
\* parse_regex raises the malformed-expression error and leaves no syntax tree.
C6_UnbalancedDetected ==
  (last.op = "parse_regex" /\ ~Balanced(original_regex))
  => (last.raised = "ValueError" /\ syntax_tree = None)

\* C7: minimize_dfa called while dfa is unset raises and leaves dfa and
\* minimized_dfa unset; simulate_dfa called while both are unset raises;
\* once dfa is set simulate_dfa returns, and its result is that of the
\* minimized automaton when that is asked for and set, else of dfa.
C7_UnbuiltAutomaton ==
  [][/\ (last'.op = "minimize_dfa" /\ dfa = None)
        => (last'.raised = "ValueError" /\ dfa' = None /\ minimized_dfa' = None)
     /\ (last'.op = "simulate_dfa" /\ dfa = None /\ minimized_dfa = None)
        => last'.raised = "ValueError"
     /\ (last'.op = "simulate_dfa" /\ dfa # None)
        => /\ last'.raised = ""
           /\ last'.ret = IF last'.minimized /\ minimized_dfa # None
                           THEN AcceptsFrom(minimized_dfa, minimized_dfa.initial, last'.input)
                           ELSE AcceptsFrom(dfa, dfa.initial, last'.input)
    ]_vars

\* simulate_dfa(w, minimized=True) returned on an instance with dfa set and
\* minimized_dfa unset, after a minimize_dfa that raised
C7_Witness ==
  /\ Returned("simulate_dfa") /\ last.minimized /\ ~last.ret
  /\ dfa # None /\ minimized_dfa = None

\* the state ids of d reachable from its initial state
RECURSIVE Reach(_, _)
Reach(d, seen) ==
  LET more == seen \cup {d.transitions[i].val : i \in {j \in 1..Len(d.transitions) :
                                                         d.transitions[j].key[1] \in seen}}
  IN  IF more = seen THEN seen ELSE Reach(d, more)

WellFormedAutomaton(d) ==
  LET ids == 0..(d.states - 1)
  IN  /\ d.initial \in ids
      /\ d.final_states \subseteq ids
      /\ \A i \in 1..Len(d.transitions) :
           /\ d.transitions[i].key[1] \in ids
           /\ d.transitions[i].key[2] \in Range(alphabet)
           /\ d.transitions[i].val \in ids
           /\ \A j \in 1..Len(d.transitions) :
                d.transitions[i].key = d.transitions[j].key => i = j
      /\ Reach(d, {d.initial}) = ids

\* C8: both automaton records are well formed: the initial state, the final
\* states and the ends of every transition are ids below the state count,
\* every transition symbol is in the alphabet, the position sets found by
\* construct_dfa have distinct ids that fill 0..states-1, and every id is
\* reachable from the initial state.
C8_AutomataWellFormed ==
  /\ dfa # None =>
       /\ WellFormedAutomaton(dfa)
       /\ Cardinality(DOMAIN states) = dfa.states
       /\ {states[x] : x \in DOMAIN states} = 0..(dfa.states - 1)
  /\ minimized_dfa # None => WellFormedAutomaton(minimized_dfa)

C8_Witness ==
  /\ Returned("minimize_dfa") /\ original_regex = Classic
  /\ dfa.states = 4 /\ minimized_dfa.states = 4
  /\ Len(dfa.transitions) = 8 /\ Len(minimized_dfa.transitions) = 8

Bijections(n) ==
  {f \in [0..(n - 1) -> 0..(n - 1)] : \A p, q \in 0..(n - 1) : f[p] = f[q] => p = q}

Edges(d) == {<<d.transitions[i].key[1], d.transitions[i].key[2], d.transitions[i].val>> :
               i \in 1..Len(d.transitions)}

Isomorphic(d, e) ==
  /\ d.states = e.states
  /\ d.final_states \subseteq 0..(d.states - 1)
  /\ \E f \in Bijections(d.states) :
       /\ f[d.initial] = e.initial
       /\ {f[q] : q \in d.final_states} = e.final_states
       /\ {<<f[t[1]], t[2], f[t[3]]>> : t \in Edges(d)} = Edges(e)

\* C9: minimizing the automaton minimize_dfa returned gives an automaton
\* isomorphic to it: as many states, and the same transitions, initial state
\* and final states up to a renaming of the ids.
C9_MinimizationIdempotent ==
  JustMinimized => Isomorphic(minimize(minimized_dfa, alphabet), minimized_dfa)

C9_Witness ==
  /\ Returned("minimize_dfa") /\ original_regex = <<"a", "b", "|", "b", "b">>
  /\ minimized_dfa.states = 3
  /\ minimize(minimized_dfa, alphabet).states = 3

UnaryNodes(nodes) == {n \in 1..Len(nodes) : nodes[n].data \in {"*", "+", "?"}}

\* C10 as stated: every Star, Plus and Optional node has firstpos and
\* lastpos both equal to the firstpos of its child.
C10_UnaryFirstposTwice ==
  syntax_tree # None =>
    \A n \in UnaryNodes(syntax_tree.nodes) :
      LET node == syntax_tree.nodes[n]
          child == syntax_tree.nodes[node.left]
      IN  node.firstpos = child.firstpos /\ node.lastpos = child.firstpos

\* C10 amended: every Star, Plus and Optional node has the firstpos of its
\* child as firstpos and the lastpos of its child as lastpos.
C10_UnaryCopiesChild ==
  syntax_tree # None =>
    \A n \in UnaryNodes(syntax_tree.nodes) :
      LET node == syntax_tree.nodes[n]
          child == syntax_tree.nodes[node.left]
      IN  node.firstpos = child.firstpos /\ node.lastpos = child.lastpos

\* (ab)*: the operand starts at position 1 and ends at position 2
C10_Witness ==
  /\ Returned("parse_regex") /\ syntax_tree # None
  /\ \E n \in UnaryNodes(syntax_tree.nodes) :
       LET child == syntax_tree.nodes[syntax_tree.nodes[n].left]
       IN  child.data = "." /\ child.firstpos # child.lastpos

\* C11 as stated: once parse_regex has returned on the instance, no later
\* call changes pos_to_symbol, the position numbering (next_pos, the
\* end-marker at the last position) or followpos; so a process() that
\* follows a process() returns and leaves the same dfa and minimized_dfa.
C11_ParsedTablesFrozen ==
  [][/\ syntax_tree # None
        => /\ pos_to_symbol' = pos_to_symbol
           /\ next_pos' = next_pos
           /\ end_pos_of(pos_to_symbol') = Len(pos_to_symbol')
           /\ followpos' = followpos
     /\ (Returned("process") /\ last'.op = "process")
        => /\ last'.raised = ""
           /\ dfa' = dfa
           /\ minimized_dfa' = minimized_dfa
    ]_vars

NoRepeats(q) == \A i, j \in 1..Len(q) : q[i] = q[j] => i = j

\* inside construct_dfa: the sets waiting in unmarked_states are distinct,
\* each has its id in states, and every set of states is a set of positions
UnmarkedStatesDistinct ==
  InConstructDfa =>
    /\ NoRepeats(frame.c.unmarked_states)
    /\ Range(frame.c.unmarked_states) \subseteq DOMAIN frame.c.states
    /\ DOMAIN frame.c.states \subseteq SUBSET (1..(next_pos - 1))

\* a step inside construct_dfa appends to unmarked_states only sets that
\* were never in states, each once, and gives each its id; only the pop
\* takes a set off
UnmarkedStatesEnqueuedOnce ==
  (InConstructDfa /\ InConstructDfa') =>
    LET old == frame.c
        new == frame'.c
        kept == IF frame.i = 0 THEN Tail(old.unmarked_states) ELSE old.unmarked_states
        enqueued == SubSeq(new.unmarked_states, Len(kept) + 1, Len(new.unmarked_states))
    IN  /\ new.unmarked_states = kept \o enqueued
        /\ NoRepeats(enqueued)
        /\ Range(enqueued) \cap DOMAIN old.states = {}
        /\ DOMAIN new.states = DOMAIN old.states \cup Range(enqueued)

IsPartition(P, S) ==
  /\ \A k \in 1..Len(P) : P[k] # {}
  /\ \A k, l \in 1..Len(P) : k # l => P[k] \cap P[l] = {}
  /\ UNION Range(P) = S

\* inside minimize_dfa: the blocks are non-empty, disjoint and cover the
\* states, also half way through `for partition in partitions`, so the
\* splits so far (the blocks beyond the initial ones) are at most
\* states - 1; the blocks waiting in workset are non-empty
PartitionsBounded ==
  InMinimizeDfa =>
    LET P == frame.h.partitions
        half_way == frame.new_partitions \o SubSeq(P, frame.j, Len(P))
    IN  /\ IsPartition(P, 0..(dfa.states - 1))
        /\ frame.i > 0 => IsPartition(half_way, 0..(dfa.states - 1))
        /\ Len(P) - Len(initial_partitions(dfa)) <= dfa.states - 1
        /\ Len(half_way) - Len(initial_partitions(dfa)) <= dfa.states - 1
        /\ \A k \in 1..Len(frame.h.workset) : frame.h.workset[k] # {}

\* a step inside minimize_dfa enqueues only when it splits the block it is
\* at into two non-empty pieces: workset grows by at most one, and every
\* block that was not waiting before is a proper non-empty part of that block
WorksetEnqueuedOnSplit ==
  (InMinimizeDfa /\ InMinimizeDfa') =>
    LET old == frame.h.workset
        new == frame'.h.workset
        block == frame.h.partitions[frame.j]
    IN  IF frame.i = 0
        THEN new = Tail(old)
        ELSE /\ Len(new) <= Len(old) + 1
             /\ \A k \in 1..Len(new) :
                  \/ InList(old, new[k])
                  \/ /\ new[k] # {}
                     /\ new[k] \subseteq block
                     /\ block \ new[k] # {}

\* C12: both while loops end: inside construct_dfa unmarked_states becomes
\* empty, each position set being enqueued at most once and being a set of
\* positions; inside minimize_dfa workset becomes empty, a block being
\* enqueued only at the start or as a piece of a block just split in two,
\* with at most states - 1 splits in all.
C12_WorklistsEmpty ==
  /\ []UnmarkedStatesDistinct
  /\ [][UnmarkedStatesEnqueuedOnce]_vars
  /\ []PartitionsBounded
  /\ [][WorksetEnqueuedOnSplit]_vars
  /\ InConstructDfa ~> (InConstructDfa /\ frame.i = 0 /\ frame.c.unmarked_states = <<>>)
  /\ InMinimizeDfa ~> (InMinimizeDfa /\ frame.i = 0 /\ frame.h.workset = <<>>)

\* (a|b)*abb: both loops have run to the end, the first over four position
\* sets, the second splitting the two initial blocks into four
C12_Witness ==
  /\ frame = None /\ Returned("minimize_dfa") /\ parse_calls = 1
  /\ original_regex = Classic
  /\ Cardinality(DOMAIN states) = 4 /\ minimized_dfa.states = 4

====
